---- MODULE Spec2Model ----
(***************************************************************************)
(* The interactive kolam canvas editor of the draw page (DrawPage): the     *)
(* React state of the component, one action per event handler, and the     *)
(* asynchronous evaluator submission.                                      *)
(*                                                                         *)
(* JavaScript values are modelled as follows.  An optional value (T | null)*)
(* is the empty sequence for null and <<v>> for a value.  An element of    *)
(* the shapes array is a record whose field kind tells what the slot       *)
(* holds: a complete Shape object, an object that has only x and y (what   *)
(* the spread of undefined plus x and y yields), the value undefined, or a *)
(* hole of a sparse array.  Array indices are 0-based as in the source;    *)
(* shapes[i] of the source is shapes[i + 1] here.                          *)
(***************************************************************************)
EXTENDS Integers, Sequences, FiniteSets, Bags

VARIABLES
    shapes,                 \* useState<Shape[]>([])
    isDrawing,              \* useState(false)
    lastPosition,           \* useState({x: 0, y: 0})
    selectedShape,          \* useState<ShapeType>('freehand')
    brushColor,             \* useState('#000000')
    svgImages,              \* the names of the glyph images that have loaded
    draggedShapeIndex,      \* useState<number | null>(null)
    dragOffset,             \* useState({x: 0, y: 0})
    originalShapePosition,  \* useState<{x, y} | null>(null)
    backgroundImage,        \* useState<HTMLImageElement | null>(null)
    showGrid,               \* useState(true)
    evaluationStatus,       \* useState<'idle'|'loading'|'success'|'error'>('idle')
    crashed,                \* the component was unmounted by an error thrown in its effect
    uploads,                \* the bag of image uploads in progress (FileReader, then Image decode)
    requests,               \* evaluator submissions: request id -> phase
    statusUpdates,          \* request id -> number of terminal status assignments made for it
    lastEvent,              \* history: <<handler, branch>> of the last step taken
    gesture,                \* history: the drag gesture in progress or just ended, if any
    dragStart,              \* history, where tracked: the shape sequence when the drag session in progress began
    uploadHistory,          \* history: the file selected last; an upload began since the last clear
    probe,                  \* a helper function applied on its own: its inputs and outputs
    generator,              \* the state of a generator page, when one is mounted
    evaluatePage            \* the state of the evaluate page, when it is mounted

vars == <<shapes, isDrawing, lastPosition, selectedShape, brushColor, svgImages,
          draggedShapeIndex, dragOffset, originalShapePosition, backgroundImage,
          showGrid, evaluationStatus, crashed, uploads, requests, statusUpdates,
          lastEvent, gesture, dragStart, uploadHistory, probe, generator,
          evaluatePage>>

editorVars == <<shapes, isDrawing, lastPosition, selectedShape, brushColor, svgImages,
                draggedShapeIndex, dragOffset, originalShapePosition>>
sceneVars == <<backgroundImage, showGrid>>
uploadVars == <<uploads>>
evalVars == <<evaluationStatus, requests, statusUpdates>>
otherPages == <<generator, evaluatePage>>

---------------------------------------------------------------------------
(* Program constants and the bounds of the model *)

gridSize == 70

\* the longest shape sequence the model builds
MaxShapes == 3
\* the number of evaluator submissions the model follows
MaxRequests == 3
\* the number of image uploads in progress at one time
MaxUploads == 3
\* the number of evaluate-page timeouts the model follows
MaxTimeouts == 3
\* the number of generator requests the model follows
MaxGenerations == 2
\* snapToGrid is applied to the coordinates -MaxCoord .. MaxCoord
MaxCoord == 150
\* isPointInShape is applied to the points up to MaxOffset away from the
\* centre of the shape in x and in y
MaxOffset == 40

\* canvas.width and canvas.height
canvasWidth == 800
canvasHeight == 600

null == <<>>
Some(v) == <<v>>
Val(o) == o[1]

Pos(x, y) == [x |-> x, y |-> y]

\* pointer positions (clientX - rect.left, clientY - rect.top) the model tries:
\* (40,40) and (5,40) lie in the cell centred at (35,35), the first inside and
\* the second outside the bounding box of a shape there; (40,110) lies in the
\* cell below, inside the bounding box of a shape at (35,105).
Points == {Pos(5, 40), Pos(40, 40), Pos(40, 110)}
OnePoint == {Pos(40, 40)}
\* (73,5) lies in the cell centred at (105,35), outside the bounding box of a
\* shape there
ToolPoints == {Pos(40, 40), Pos(73, 5)}

\* pointer positions at the corners of the canvas, (0,0) and (799,599), and
\* one inside it
EdgePoints == {Pos(0, 0), Pos(40, 40), Pos(canvasWidth - 1, canvasHeight - 1)}

GlyphTypes == {"kul", "lu"}
ShapeTypes == GlyphTypes \cup {"freehand"}
Colors == {"#000000", "#FF0000"}
Files == {"imgA", "imgB"}

---------------------------------------------------------------------------
(* Array elements *)

Shape(t, x, y, sz, c) ==
    [kind |-> "shape", type |-> t, x |-> x, y |-> y, size |-> sz, color |-> c]
\* {...undefined, x, y}: an object with x and y and no type, size or color
Partial(x, y) ==
    [kind |-> "partial", type |-> "undefined", x |-> x, y |-> y, size |-> 0,
     color |-> "undefined"]
Undefined ==
    [kind |-> "undefined", type |-> "undefined", x |-> 0, y |-> 0, size |-> 0,
     color |-> "undefined"]
Hole ==
    [kind |-> "hole", type |-> "undefined", x |-> 0, y |-> 0, size |-> 0,
     color |-> "undefined"]

IsObject(e) == e.kind \in {"shape", "partial"}

\* shapes[i] for a 0-based i: undefined beyond the end and at a hole
At(s, i) == IF i >= 0 /\ i < Len(s) /\ s[i + 1] # Hole THEN s[i + 1] ELSE Undefined

\* [...s]: the spread of a sparse array yields undefined for its holes
Spread(s) == [i \in 1..Len(s) |-> IF s[i] = Hole THEN Undefined ELSE s[i]]

\* a[d] = v on an array: beyond the end the array grows and the skipped slots are holes
SetIndex(a, d, v) ==
    IF d < Len(a)
    THEN [a EXCEPT ![d + 1] = v]
    ELSE a \o [i \in 1..(d - Len(a)) |-> Hole] \o <<v>>

\* a variant of WithPosition that keeps nothing of the element but x and y
WithPosition_PositionOnly(e, x, y) == Partial(x, y)

\* {...e, x, y}
WithPosition(e, x, y) ==
    IF IsObject(e) THEN [e EXCEPT !.x = x, !.y = y] ELSE Partial(x, y)

---------------------------------------------------------------------------
(* Pure helpers of the component *)

\* a variant of snapToGrid that returns the corner of the cell
snapToGrid_CellCorner(coord, g) == (coord \div g) * g

\* Math.floor(coord / gridSize) * gridSize + gridSize / 2
snapToGrid(coord, g) == (coord \div g) * g + g \div 2

\* a variant of isPointInShape that excludes the boundary of the box
isPointInShape_Strict(px, py, shape) ==
    /\ shape.kind = "shape"
    /\ px > shape.x - shape.size \div 2 /\ px < shape.x + shape.size \div 2
    /\ py > shape.y - shape.size \div 2 /\ py < shape.y + shape.size \div 2

\* the bounding-box test; shape.size of an object without size is undefined and
\* every comparison with NaN is false.  For integer coordinates, comparing
\* with size \div 2 decides as comparing with size / 2 does.
isPointInShape(px, py, shape) ==
    /\ shape.kind = "shape"
    /\ px >= shape.x - shape.size \div 2 /\ px <= shape.x + shape.size \div 2
    /\ py >= shape.y - shape.size \div 2 /\ py <= shape.y + shape.size \div 2

\* the search loop of startDrawing, from the last index down: the index of
\* the first hit, or -1
HitIndices(x, y) ==
    {i \in 0..(Len(shapes) - 1) : isPointInShape(x, y, At(shapes, i))}
clickedShapeIndex(x, y) ==
    IF HitIndices(x, y) = {} THEN 0 - 1
    ELSE CHOOSE i \in HitIndices(x, y) : \A j \in HitIndices(x, y) : j <= i

\* the loop reads shape.size of every element it visits: an element that is
\* undefined (a hole included) visited before the first hit throws a TypeError
searchThrows(x, y) ==
    \E j \in 0..(Len(shapes) - 1) :
        /\ ~IsObject(At(shapes, j))
        /\ j > clickedShapeIndex(x, y)

\* shapes.some(s => s.x === snappedX && s.y === snappedY), skipping index `except`
\* (Array.prototype.some does not visit holes)
isOccupied(s, sx, sy, except) ==
    \E i \in 0..(Len(s) - 1) :
        /\ i # except
        /\ s[i + 1] # Hole
        /\ s[i + 1].x = sx /\ s[i + 1].y = sy

\* redrawCanvas, run by the effect after a render: forEach skips holes and calls
\* drawShape on every other element but the dragged one; drawShape reads
\* shape.type, which throws on undefined
redrawThrows(s, d) ==
    \E i \in 0..(Len(s) - 1) :
        /\ s[i + 1] = Undefined
        /\ (d = null \/ Val(d) # i)

\* the drawShape calls of shapes.forEach in redrawCanvas, from the 0-based
\* index i on: the elements that are neither holes nor the dragged one, up to
\* the first undefined element, on which drawShape throws
RECURSIVE forEachDrawn(_, _, _)
forEachDrawn(s, d, i) ==
    IF i >= Len(s) THEN <<>>
    ELSE IF s[i + 1] = Hole \/ (d # null /\ Val(d) = i) THEN forEachDrawn(s, d, i + 1)
    ELSE IF s[i + 1] = Undefined THEN <<>>
    ELSE <<s[i + 1]>> \o forEachDrawn(s, d, i + 1)

\* a variant of drawList that draws the dragged shape in its place in the sequence
drawList_DraggedInPlace(s, d) == forEachDrawn(s, null, 0)

\* redrawCanvas: the elements drawShape is called on, in the order of the
\* calls; the dragged element comes last, if draggedShapeIndex is set and
\* shapes[draggedShapeIndex] is an object
drawList(s, d) ==
    forEachDrawn(s, d, 0) \o
        (IF ~redrawThrows(s, d) /\ d # null /\ IsObject(At(s, Val(d)))
         THEN <<At(s, Val(d))>>
         ELSE <<>>)

---------------------------------------------------------------------------
\* the component after its first render
Mounted ==
    /\ shapes = <<>>
    /\ isDrawing = FALSE
    /\ lastPosition = Pos(0, 0)
    /\ selectedShape = "freehand"
    /\ brushColor = "#000000"
    /\ svgImages = {}
    /\ draggedShapeIndex = null
    /\ dragOffset = Pos(0, 0)
    /\ originalShapePosition = null
    /\ backgroundImage = null
    /\ showGrid = TRUE
    /\ evaluationStatus = "idle"
    /\ crashed = FALSE
    /\ uploads = EmptyBag
    /\ requests = [r \in 1..MaxRequests |-> "unused"]
    /\ statusUpdates = [r \in 1..MaxRequests |-> 0]
    /\ lastEvent = <<"mount", "">>
    /\ gesture = null
    /\ uploadHistory = [last |-> null, sinceClear |-> FALSE]

Init ==
    /\ Mounted
    /\ dragStart = [tracked |-> FALSE, start |-> null]
    /\ probe = null
    /\ generator = null
    /\ evaluatePage = null

\* the same state, with the history of the drag sessions kept
InitDrag ==
    /\ Mounted
    /\ dragStart = [tracked |-> TRUE, start |-> null]
    /\ probe = null
    /\ generator = null
    /\ evaluatePage = null

---------------------------------------------------------------------------
(* The effect of the component runs redrawCanvas after every render in which
   brushSize, brushColor, backgroundImage or shapes changed.  An error thrown
   there is not caught by any error boundary of the page: React unmounts the
   component, and no handler runs any more. *)
effectCrashes(s, d) == redrawThrows(s, d)

---------------------------------------------------------------------------
(* onMouseDown *)

\* a variant of startDrawingBranch that tests the tool after the shape search
startDrawingBranch_SearchFirst(x, y) ==
    IF searchThrows(x, y) THEN "throw"
    ELSE IF clickedShapeIndex(x, y) # -1 THEN "grab"
    ELSE IF selectedShape = "freehand" THEN "stroke"
    ELSE IF ~isOccupied(shapes, snapToGrid(x, gridSize), snapToGrid(y, gridSize), -1)
    THEN "place"
    ELSE "reject"

\* a variant of startDrawingBranch without the early return of the freehand tool
startDrawingBranch_NoFreehandReturn(x, y) ==
    IF searchThrows(x, y) THEN "throw"
    ELSE IF clickedShapeIndex(x, y) # -1 THEN "grab"
    ELSE IF ~isOccupied(shapes, snapToGrid(x, gridSize), snapToGrid(y, gridSize), -1)
    THEN "place"
    ELSE "reject"

\* the branch startDrawing takes for a pointer at (x, y)
startDrawingBranch(x, y) ==
    IF selectedShape = "freehand" THEN "stroke"
    ELSE IF searchThrows(x, y) THEN "throw"
    ELSE IF clickedShapeIndex(x, y) # -1 THEN "grab"
    ELSE IF ~isOccupied(shapes, snapToGrid(x, gridSize), snapToGrid(y, gridSize), -1)
    THEN "place"
    ELSE "reject"

\* the shape a placement creates
newShape(x, y) ==
    Shape(selectedShape, snapToGrid(x, gridSize), snapToGrid(y, gridSize),
          (gridSize * 8) \div 10, brushColor)

startDrawing(x, y) ==
    /\ ~crashed
    /\ LET branch == startDrawingBranch(x, y) IN
       CASE branch = "stroke" ->
            /\ isDrawing' = TRUE
            /\ lastPosition' = Pos(x, y)
            /\ UNCHANGED <<shapes, draggedShapeIndex, dragOffset,
                           originalShapePosition, crashed>>
         [] branch = "throw" ->
            \* TypeError in isPointInShape: the handler ends before any setState
            UNCHANGED <<shapes, isDrawing, lastPosition, draggedShapeIndex,
                        dragOffset, originalShapePosition, crashed>>
         [] branch = "grab" ->
            LET i == clickedShapeIndex(x, y)
                s == At(shapes, i)
            IN  /\ draggedShapeIndex' = Some(i)
                /\ isDrawing' = TRUE
                /\ originalShapePosition' = Some(Pos(s.x, s.y))
                /\ dragOffset' = Pos(x - s.x, y - s.y)
                /\ UNCHANGED <<shapes, lastPosition, crashed>>
         [] branch = "place" ->
            /\ Len(shapes) < MaxShapes
            /\ shapes' = Spread(shapes) \o <<newShape(x, y)>>
            /\ crashed' = effectCrashes(shapes', draggedShapeIndex)
            /\ UNCHANGED <<isDrawing, lastPosition, draggedShapeIndex,
                           dragOffset, originalShapePosition>>
         [] branch = "reject" ->
            UNCHANGED <<shapes, isDrawing, lastPosition, draggedShapeIndex,
                        dragOffset, originalShapePosition, crashed>>
    /\ UNCHANGED <<selectedShape, brushColor, svgImages>>
    /\ UNCHANGED <<sceneVars, uploadVars, evalVars>>

---------------------------------------------------------------------------
(* onMouseMove *)

drawBranch ==
    IF ~isDrawing THEN "idle"
    ELSE IF draggedShapeIndex # null THEN "drag"
    ELSE IF selectedShape = "freehand" THEN "stroke"
    ELSE "none"

\* newShapes of the drag branch: the copy with index d set to {...newShapes[d], x, y}
draggedShapes(x, y) ==
    LET d == Val(draggedShapeIndex)
        copy == Spread(shapes)
    IN  SetIndex(copy, d,
                 WithPosition(At(copy, d), x - dragOffset.x, y - dragOffset.y))

\* a variant of draw whose stroke branch is not exclusive with the drag branch
draw_DragAndStroke(x, y) ==
    /\ ~crashed
    /\ CASE drawBranch = "idle" ->
            UNCHANGED <<shapes, lastPosition, crashed>>
         [] drawBranch = "drag" ->
            /\ shapes' = draggedShapes(x, y)
            /\ crashed' = effectCrashes(shapes', draggedShapeIndex)
            /\ lastPosition' = IF selectedShape = "freehand" THEN Pos(x, y)
                                ELSE lastPosition
         [] drawBranch = "stroke" ->
            /\ lastPosition' = Pos(x, y)
            /\ UNCHANGED <<shapes, crashed>>
         [] drawBranch = "none" ->
            UNCHANGED <<shapes, lastPosition, crashed>>
    /\ UNCHANGED <<isDrawing, draggedShapeIndex, dragOffset, originalShapePosition>>
    /\ UNCHANGED <<selectedShape, brushColor, svgImages>>
    /\ UNCHANGED <<sceneVars, uploadVars, evalVars>>

draw(x, y) ==
    /\ ~crashed
    /\ CASE drawBranch = "idle" ->
            UNCHANGED <<shapes, lastPosition, crashed>>
         [] drawBranch = "drag" ->
            /\ shapes' = draggedShapes(x, y)
            /\ crashed' = effectCrashes(shapes', draggedShapeIndex)
            /\ UNCHANGED lastPosition
         [] drawBranch = "stroke" ->
            \* a line segment from lastPosition to (x, y) is stroked on the canvas
            /\ lastPosition' = Pos(x, y)
            /\ UNCHANGED <<shapes, crashed>>
         [] drawBranch = "none" ->
            UNCHANGED <<shapes, lastPosition, crashed>>
    /\ UNCHANGED <<isDrawing, draggedShapeIndex, dragOffset, originalShapePosition>>
    /\ UNCHANGED <<selectedShape, brushColor, svgImages>>
    /\ UNCHANGED <<sceneVars, uploadVars, evalVars>>

---------------------------------------------------------------------------
(* onMouseUp and onMouseLeave *)

\* the shape being released, newShapes[draggedShapeIndex]
releasedShape == At(Spread(shapes), Val(draggedShapeIndex))

\* the occupancy test of the release: another shape at the snapped position
releaseOccupied ==
    isOccupied(shapes, snapToGrid(releasedShape.x, gridSize),
               snapToGrid(releasedShape.y, gridSize), Val(draggedShapeIndex))

stopDrawingBranch ==
    IF draggedShapeIndex # null /\ originalShapePosition # null
    THEN IF ~IsObject(releasedShape) THEN "throw"
         ELSE IF releaseOccupied THEN "revert"
         ELSE "commit"
    ELSE "release"

\* where the released shape ends: its pre-drag position if the cell is taken,
\* the centre of its cell otherwise
releasePosition ==
    IF releaseOccupied
    THEN Val(originalShapePosition)
    ELSE Pos(snapToGrid(releasedShape.x, gridSize),
             snapToGrid(releasedShape.y, gridSize))

stopDrawing ==
    /\ ~crashed
    /\ CASE stopDrawingBranch = "throw" ->
            \* shape is undefined: reading shape.x throws before any setState
            UNCHANGED <<shapes, isDrawing, draggedShapeIndex,
                        originalShapePosition, crashed>>
         [] stopDrawingBranch \in {"revert", "commit"} ->
            /\ shapes' = SetIndex(Spread(shapes), Val(draggedShapeIndex),
                                  WithPosition(releasedShape, releasePosition.x,
                                               releasePosition.y))
            /\ IF redrawThrows(shapes, draggedShapeIndex)
               THEN \* the handler's own redrawCanvas() throws after setShapes:
                    \* the three resets that follow it are not reached
                    /\ UNCHANGED <<isDrawing, draggedShapeIndex, originalShapePosition>>
                    /\ crashed' = effectCrashes(shapes', draggedShapeIndex)
               ELSE /\ isDrawing' = FALSE
                    /\ draggedShapeIndex' = null
                    /\ originalShapePosition' = null
                    /\ crashed' = effectCrashes(shapes', null)
         [] stopDrawingBranch = "release" ->
            /\ isDrawing' = FALSE
            /\ draggedShapeIndex' = null
            /\ originalShapePosition' = null
            /\ UNCHANGED <<shapes, crashed>>
    /\ UNCHANGED <<lastPosition, dragOffset, selectedShape, brushColor, svgImages>>
    /\ UNCHANGED <<sceneVars, uploadVars, evalVars>>

---------------------------------------------------------------------------
(* Buttons and inputs *)

\* a variant of clearCanvas that leaves the background image in place
clearCanvas_KeepsBackground ==
    /\ ~crashed
    /\ shapes' = <<>>
    /\ showGrid' = TRUE
    /\ crashed' = effectCrashes(shapes', draggedShapeIndex)
    /\ UNCHANGED <<isDrawing, lastPosition, selectedShape, brushColor, svgImages,
                   draggedShapeIndex, dragOffset, originalShapePosition>>
    /\ UNCHANGED <<backgroundImage, uploadVars, evalVars>>

\* "Clear Canvas"
clearCanvas ==
    /\ ~crashed
    /\ shapes' = <<>>
    /\ backgroundImage' = null
    /\ showGrid' = TRUE
    /\ crashed' = effectCrashes(shapes', draggedShapeIndex)
    /\ UNCHANGED <<isDrawing, lastPosition, selectedShape, brushColor, svgImages,
                   draggedShapeIndex, dragOffset, originalShapePosition>>
    /\ UNCHANGED <<uploadVars, evalVars>>

undoLastShapeBranch == IF Len(shapes) > 0 THEN "remove" ELSE "empty"

\* a variant of undoLastShape that drops the first element, prev.slice(1)
undoLastShape_RemovesFirst ==
    /\ ~crashed
    /\ IF Len(shapes) > 0
       THEN /\ shapes' = SubSeq(shapes, 2, Len(shapes))
            /\ crashed' = effectCrashes(shapes', draggedShapeIndex)
       ELSE UNCHANGED <<shapes, crashed>>
    /\ UNCHANGED <<isDrawing, lastPosition, selectedShape, brushColor, svgImages,
                   draggedShapeIndex, dragOffset, originalShapePosition>>
    /\ UNCHANGED <<sceneVars, uploadVars, evalVars>>

\* "Undo Last": prev.slice(0, -1) keeps the holes of the part it keeps
undoLastShape ==
    /\ ~crashed
    /\ IF Len(shapes) > 0
       THEN /\ shapes' = SubSeq(shapes, 1, Len(shapes) - 1)
            /\ crashed' = effectCrashes(shapes', draggedShapeIndex)
       ELSE UNCHANGED <<shapes, crashed>>
    /\ UNCHANGED <<isDrawing, lastPosition, selectedShape, brushColor, svgImages,
                   draggedShapeIndex, dragOffset, originalShapePosition>>
    /\ UNCHANGED <<sceneVars, uploadVars, evalVars>>

\* a variant of setSelectedShape whose glyph buttons are never disabled
setSelectedShape_AlwaysEnabled(shape) ==
    /\ ~crashed
    /\ selectedShape' = shape
    /\ UNCHANGED <<shapes, isDrawing, lastPosition, brushColor, svgImages,
                   draggedShapeIndex, dragOffset, originalShapePosition, crashed>>
    /\ UNCHANGED <<sceneVars, uploadVars, evalVars>>

\* a variant of setSelectedShape that ends the pointer session in progress
setSelectedShape_EndsSession(shape) ==
    /\ ~crashed
    /\ shape \in GlyphTypes => shape \in svgImages
    /\ selectedShape' = shape
    /\ isDrawing' = FALSE
    /\ draggedShapeIndex' = null
    /\ originalShapePosition' = null
    /\ UNCHANGED <<shapes, lastPosition, brushColor, svgImages, dragOffset, crashed>>
    /\ UNCHANGED <<sceneVars, uploadVars, evalVars>>

\* the tool buttons: a glyph button is disabled until its image has loaded
setSelectedShape(shape) ==
    /\ ~crashed
    /\ shape \in GlyphTypes => shape \in svgImages
    /\ selectedShape' = shape
    /\ UNCHANGED <<shapes, isDrawing, lastPosition, brushColor, svgImages,
                   draggedShapeIndex, dragOffset, originalShapePosition, crashed>>
    /\ UNCHANGED <<sceneVars, uploadVars, evalVars>>

\* the colour input and the colour buttons; brushColor is a dependency of the effect
setBrushColor(color) ==
    /\ ~crashed
    /\ brushColor' = color
    /\ crashed' = (color # brushColor /\ effectCrashes(shapes, draggedShapeIndex))
    /\ UNCHANGED <<shapes, isDrawing, lastPosition, selectedShape, svgImages,
                   draggedShapeIndex, dragOffset, originalShapePosition>>
    /\ UNCHANGED <<sceneVars, uploadVars, evalVars>>

\* img.onload of a glyph image; an image that fails to load never calls it
svgLoaded(name) ==
    /\ ~crashed
    /\ name \notin svgImages
    /\ svgImages' = svgImages \cup {name}
    /\ UNCHANGED <<shapes, isDrawing, lastPosition, selectedShape, brushColor,
                   draggedShapeIndex, dragOffset, originalShapePosition, crashed>>
    /\ UNCHANGED <<sceneVars, uploadVars, evalVars>>

---------------------------------------------------------------------------
(* Image upload: FileReader.readAsDataURL, then the decode of the Image *)

handleImageUpload(file) ==
    /\ ~crashed
    /\ BagCardinality(uploads) < MaxUploads
    /\ uploads' = uploads (+) SetToBag({[file |-> file, stage |-> "reading"]})
    /\ UNCHANGED <<editorVars, sceneVars, evalVars, crashed>>

\* The callbacks of an upload or a submission are not cancelled when the
\* component is unmounted: they run, and React ignores their state updates.
SetState(current, value) == IF crashed THEN current ELSE value

\* reader.onload: the Image is created and its src set
readerLoaded(u) ==
    /\ BagIn(u, uploads) /\ u.stage = "reading"
    /\ uploads' = (uploads (-) SetToBag({u}))
                      (+) SetToBag({[file |-> u.file, stage |-> "decoding"]})
    /\ UNCHANGED <<editorVars, sceneVars, evalVars, crashed>>

\* a variant of imageLoaded that leaves the grid flag alone
imageLoaded_KeepsGrid(u) ==
    /\ BagIn(u, uploads) /\ u.stage = "decoding"
    /\ uploads' = uploads (-) SetToBag({u})
    /\ backgroundImage' = SetState(backgroundImage, Some(u.file))
    /\ crashed' = (crashed \/ (backgroundImage' # backgroundImage
                                /\ effectCrashes(shapes, draggedShapeIndex)))
    /\ UNCHANGED <<editorVars, evalVars, showGrid>>

\* img.onload: the two state updates are batched into one render
imageLoaded(u) ==
    /\ BagIn(u, uploads) /\ u.stage = "decoding"
    /\ uploads' = uploads (-) SetToBag({u})
    /\ backgroundImage' = SetState(backgroundImage, Some(u.file))
    /\ showGrid' = SetState(showGrid, FALSE)
    /\ crashed' = (crashed \/ (backgroundImage' # backgroundImage
                                /\ effectCrashes(shapes, draggedShapeIndex)))
    /\ UNCHANGED <<editorVars, evalVars>>

---------------------------------------------------------------------------
(* Evaluator submission.  Phases of a request: "toBlob" (canvas.toBlob pending),
   "fetch" (the POST is in flight), "json" (the response arrived with an ok
   status and its body is being read), "done". *)

\* setEvaluationStatus is called with a terminal value, on behalf of request r
SetStatus(r, status) ==
    /\ evaluationStatus' = SetState(evaluationStatus, status)
    /\ statusUpdates' = [statusUpdates EXCEPT ![r] = @ + 1]

\* the "Evaluate Kolam" button is disabled while evaluationStatus is loading
submitEnabled == evaluationStatus # "loading"

evaluateKolam ==
    /\ ~crashed
    /\ submitEnabled
    /\ \E r \in 1..MaxRequests :
        /\ requests[r] = "unused"
        /\ \A q \in 1..(r - 1) : requests[q] # "unused"
        /\ requests' = [requests EXCEPT ![r] = "toBlob"]
    /\ evaluationStatus' = "loading"
    /\ UNCHANGED <<editorVars, sceneVars, uploadVars, statusUpdates, crashed>>

\* the toBlob callback: a null blob ends the submission, otherwise fetch is called
blobReady(r, blob) ==
    /\ requests[r] = "toBlob"
    /\ IF ~blob
       THEN /\ SetStatus(r, "error")
            /\ requests' = [requests EXCEPT ![r] = "done"]
       ELSE /\ requests' = [requests EXCEPT ![r] = "fetch"]
            /\ UNCHANGED <<evaluationStatus, statusUpdates>>
    /\ UNCHANGED <<editorVars, sceneVars, uploadVars, crashed>>

\* a variant of fetchSettled without the catch block: a network error leaves
\* the status as it is
fetchSettled_NoCatch(r, outcome) ==
    /\ requests[r] = "fetch"
    /\ IF outcome = "ok"
       THEN /\ SetStatus(r, "success")
            /\ requests' = [requests EXCEPT ![r] = "json"]
       ELSE IF outcome = "notok"
       THEN /\ SetStatus(r, "error")
            /\ requests' = [requests EXCEPT ![r] = "done"]
       ELSE /\ requests' = [requests EXCEPT ![r] = "done"]
            /\ UNCHANGED <<evaluationStatus, statusUpdates>>
    /\ UNCHANGED <<editorVars, sceneVars, uploadVars, crashed>>

\* fetch settles: outcome is "ok", "notok" (a non-success status) or "throw"
fetchSettled(r, outcome) ==
    /\ requests[r] = "fetch"
    /\ IF outcome = "ok"
       THEN /\ SetStatus(r, "success")
            /\ requests' = [requests EXCEPT ![r] = "json"]
       ELSE /\ SetStatus(r, "error")
            /\ requests' = [requests EXCEPT ![r] = "done"]
    /\ UNCHANGED <<editorVars, sceneVars, uploadVars, crashed>>

\* await response.json() inside the try block: a rejection reaches the catch
jsonSettled(r, parsed) ==
    /\ requests[r] = "json"
    /\ requests' = [requests EXCEPT ![r] = "done"]
    /\ IF parsed
       THEN UNCHANGED <<evaluationStatus, statusUpdates>>
       ELSE SetStatus(r, "error")
    /\ UNCHANGED <<editorVars, sceneVars, uploadVars, crashed>>

---------------------------------------------------------------------------
(* The generator pages.  Three components post to the generate-kolam
   endpoint: KolamGenerator of part_002 (size, theme and a loading flag),
   and, in generate/page.tsx, Generate (a button that posts no body) and an
   earlier KolamGenerator (size only).  generator holds the mounted component,
   its state, the size carried by every request sent so far (null for a request
   without a size), the requests whose fetch has not settled (pending) and the
   responses whose body is being read (reading). *)

GeneratorPages ==
    {"part_002:KolamGenerator", "page.tsx:KolamGenerator", "page.tsx:Generate"}

\* Number(e.target.value) of the number input: min and max of the input do not
\* restrict what is typed, and the empty input gives 0
GenSizes == {0, 1, 2, 8, 50, 51}

InitGenerator ==
    /\ Mounted
    /\ dragStart = [tracked |-> FALSE, start |-> null]
    /\ probe = null
    /\ evaluatePage = null
    /\ \E pg \in GeneratorPages :
          generator = Some([page |-> pg, size |-> 8, loading |-> FALSE,
                            imageUrl |-> null, sent |-> <<>>, pending |-> {},
                            reading |-> {}])

drawPageVars ==
    <<editorVars, sceneVars, uploadVars, evalVars, crashed, gesture,
      dragStart, uploadHistory, probe>>

\* onChange of the size input
setSize(n) ==
    /\ generator # null
    /\ Val(generator).page # "page.tsx:Generate"
    /\ generator' = Some([Val(generator) EXCEPT !.size = n])
    /\ lastEvent' = <<"setSize", "">>
    /\ UNCHANGED <<drawPageVars, evaluatePage>>

\* fetch is called with a body carrying size (null: no size in the request)
SendRequest(g, size) ==
    [g EXCEPT !.sent = Append(@, size), !.pending = @ \cup {Len(g.sent) + 1}]

handleGenerateBranch ==
    IF Val(generator).size < 2 \/ Val(generator).size > 50 THEN "rejected" ELSE "sent"

\* handleGenerate of part_002; the button is disabled while loading
handleGenerate ==
    /\ generator # null
    /\ Val(generator).page = "part_002:KolamGenerator"
    /\ ~Val(generator).loading
    /\ IF handleGenerateBranch = "rejected"
       THEN \* alert("Size must be between 2 and 50")
            UNCHANGED generator
       ELSE /\ Len(Val(generator).sent) < MaxGenerations
            /\ generator' =
                  Some(SendRequest([Val(generator) EXCEPT !.loading = TRUE,
                                                         !.imageUrl = null],
                                   Some(Val(generator).size)))
    /\ lastEvent' = <<"handleGenerate", handleGenerateBranch>>
    /\ UNCHANGED <<drawPageVars, evaluatePage>>

\* handleGenerate of KolamGenerator in generate/page.tsx: no test of size, no
\* loading flag
handleGenerateUnvalidated ==
    /\ generator # null
    /\ Val(generator).page = "page.tsx:KolamGenerator"
    /\ Len(Val(generator).sent) < MaxGenerations
    /\ generator' = Some(SendRequest(Val(generator), Some(Val(generator).size)))
    /\ lastEvent' = <<"handleGenerate", "sent">>
    /\ UNCHANGED <<drawPageVars, evaluatePage>>

\* generateKolam of Generate in generate/page.tsx: a POST without a body
generateKolam ==
    /\ generator # null
    /\ Val(generator).page = "page.tsx:Generate"
    /\ Len(Val(generator).sent) < MaxGenerations
    /\ generator' = Some(SendRequest(Val(generator), null))
    /\ lastEvent' = <<"generateKolam", "sent">>
    /\ UNCHANGED <<drawPageVars, evaluatePage>>

\* the fetch of request i settles: outcome is "ok" or "notok" (a response,
\* whose body the handler then awaits) or "throw" (the fetch is rejected)
generateResponded(i, outcome) ==
    /\ generator # null
    /\ i \in Val(generator).pending
    /\ LET g == [Val(generator) EXCEPT !.pending = @ \ {i}]
           body == [g EXCEPT !.reading = @ \cup {[id |-> i, ok |-> outcome = "ok"]}]
       IN
       generator' =
          Some(CASE g.page = "part_002:KolamGenerator" ->
                      \* catch, then finally: setLoading(false)
                      IF outcome = "throw" THEN [g EXCEPT !.loading = FALSE] ELSE body
                 [] g.page = "page.tsx:KolamGenerator" ->
                      \* no try: a rejected fetch ends the handler
                      IF outcome = "throw" THEN g ELSE body
                 [] g.page = "page.tsx:Generate" ->
                      \* res.json() is awaited for an ok response only
                      IF outcome = "ok" THEN body ELSE g)
    /\ lastEvent' = <<"generateResponded", outcome>>
    /\ UNCHANGED <<drawPageVars, evaluatePage>>

\* the body of the response r has been read (res.blob(), res.text() or
\* res.json()): outcome is "ok", or "throw" when reading it is rejected
generateBodyRead(r, outcome) ==
    /\ generator # null
    /\ r \in Val(generator).reading
    /\ LET g == [Val(generator) EXCEPT !.reading = @ \ {r}] IN
       generator' =
          Some(CASE g.page = "part_002:KolamGenerator" ->
                      \* finally: setLoading(false)
                      IF r.ok /\ outcome = "ok"
                      THEN [g EXCEPT !.imageUrl = Some(r.id), !.loading = FALSE]
                      ELSE [g EXCEPT !.loading = FALSE]
                 [] g.page = "page.tsx:KolamGenerator" ->
                      IF r.ok /\ outcome = "ok"
                      THEN [g EXCEPT !.imageUrl = Some(r.id)]
                      ELSE g
                 [] g.page = "page.tsx:Generate" -> g)
    /\ lastEvent' = <<"generateBodyRead", outcome>>
    /\ UNCHANGED <<drawPageVars, evaluatePage>>

SetSize == \E n \in GenSizes : setSize(n)
GenerateResponded ==
    \E i \in 1..MaxGenerations, o \in {"ok", "notok", "throw"} : generateResponded(i, o)
GenerateBodyRead ==
    \E r \in Val(generator).reading, o \in {"ok", "throw"} : generateBodyRead(r, o)

---------------------------------------------------------------------------
(* The evaluate page: a file input, a submit button and a verdict computed
   from the file name by a 5-second timer.  timers holds, for every timeout
   that has not fired, its id (setTimeout numbers the timeouts of a page from
   1) and the file its callback closed over. *)

EvalFiles == {"kolam.png", "My_KOLAM_2.JPG", "cat.png", "rangoli.jpg"}

\* file.name.toLowerCase().includes("kolam")
includesKolam(name) == name \in {"kolam.png", "My_KOLAM_2.JPG"}

\* a message: the Unicode code points of the emoji it starts with, then the
\* rest of its characters
Message(emoji, rest) == [emoji |-> emoji, rest |-> rest]
NoMessage == Message(<<>>, "")
\* U+26A0 U+FE0F, U+2705 and U+274C
Warning == Message(<<9888, 65039>>, " Please upload a file first.")
LooksLikeKolam == Message(<<9989>>, " This looks like a Kolam!")
NotKolam == Message(<<10060>>, " Not a Kolam design.")

\* message.includes(U+2705), the test that chooses the colour of the message
includesCheckMark(m) == \E i \in 1..Len(m.emoji) : m.emoji[i] = 9989
messageClass(m) == IF includesCheckMark(m) THEN "text-green-600" ELSE "text-red-600"

InitEvaluatePage ==
    /\ Mounted
    /\ dragStart = [tracked |-> FALSE, start |-> null]
    /\ probe = null
    /\ generator = null
    /\ evaluatePage = Some([file |-> null, message |-> NoMessage, loading |-> FALSE,
                            timers |-> {}, timeouts |-> 0])

\* onChange of the file input: f is null when the dialog is cancelled
handleUpload(f) ==
    /\ evaluatePage # null
    /\ evaluatePage' = Some([Val(evaluatePage) EXCEPT !.file = f, !.message = NoMessage])
    /\ lastEvent' = <<"handleUpload", "">>
    /\ UNCHANGED <<drawPageVars, generator>>

handleSubmitBranch == IF Val(evaluatePage).file = null THEN "nofile" ELSE "start"

\* onClick of the submit button, which is disabled while loading
handleSubmit ==
    /\ evaluatePage # null
    /\ ~Val(evaluatePage).loading
    /\ handleSubmitBranch = "start" => Val(evaluatePage).timeouts < MaxTimeouts
    /\ evaluatePage' =
          Some(IF handleSubmitBranch = "nofile"
               THEN [Val(evaluatePage) EXCEPT !.message = Warning]
               ELSE [Val(evaluatePage) EXCEPT
                        !.loading = TRUE, !.message = NoMessage,
                        !.timeouts = @ + 1,
                        !.timers = @ \cup {[id |-> Val(evaluatePage).timeouts + 1,
                                            file |-> Val(Val(evaluatePage).file)]}])
    /\ lastEvent' = <<"handleSubmit", handleSubmitBranch>>
    /\ UNCHANGED <<drawPageVars, generator>>

\* the callback of setTimeout, with the file of the render that called handleSubmit
timeoutFired(t) ==
    /\ evaluatePage # null
    /\ t \in Val(evaluatePage).timers
    /\ evaluatePage' =
          Some([Val(evaluatePage) EXCEPT
                   !.timers = @ \ {t},
                   !.loading = FALSE,
                   !.message = IF includesKolam(t.file) THEN LooksLikeKolam
                               ELSE NotKolam])
    /\ lastEvent' = <<"timeout", t.file>>
    /\ UNCHANGED <<drawPageVars, generator>>

HandleUpload == \E f \in {null} \cup {Some(n) : n \in EvalFiles} : handleUpload(f)
TimeoutFired == \E t \in Val(evaluatePage).timers : timeoutFired(t)

---------------------------------------------------------------------------
(* Events.  Each event runs one handler and records, in the history variables,
   which handler ran and which of its branches it took.  gesture holds the
   shape sequence as it was when the drag in progress began and whether the
   pointer has moved since; any event that is not part of the drag (another
   pointer-down, undo, clear) discards it, and it stays readable after the
   release until the next event. *)

\* the component's handlers touch neither probe nor the state of other pages
Record(handler, branch) ==
    /\ lastEvent' = <<handler, branch>>
    /\ dragStart' =
          IF ~dragStart.tracked THEN dragStart
          ELSE IF handler = "startDrawing" /\ branch = "grab"
          THEN [dragStart EXCEPT !.start = Some(shapes)]
          ELSE IF draggedShapeIndex' = null
          THEN [dragStart EXCEPT !.start = null]
          ELSE dragStart
    /\ uploadHistory' =
          IF handler = "clearCanvas"
          THEN [uploadHistory EXCEPT !.sinceClear = FALSE]
          ELSE IF handler = "handleImageUpload"
          THEN [last |-> Some(branch), sinceClear |-> TRUE]
          ELSE uploadHistory
    /\ UNCHANGED <<probe, otherPages>>

PointerDown(P) ==
    \E p \in P :
        /\ startDrawing(p.x, p.y)
        /\ Record("startDrawing", startDrawingBranch(p.x, p.y))
        /\ gesture' = IF startDrawingBranch(p.x, p.y) = "grab"
                      THEN Some([start |-> shapes, moved |-> FALSE])
                      ELSE null

PointerMove(P) ==
    \E p \in P :
        /\ draw(p.x, p.y)
        /\ Record("draw", drawBranch)
        /\ gesture' = IF drawBranch = "drag" /\ gesture # null
                      THEN Some([Val(gesture) EXCEPT !.moved = TRUE])
                      ELSE null

PointerUp ==
    /\ stopDrawing
    /\ Record("stopDrawing", stopDrawingBranch)
    /\ gesture' = IF stopDrawingBranch \in {"revert", "commit"} THEN gesture ELSE null

Undo ==
    /\ undoLastShape
    /\ Record("undoLastShape", undoLastShapeBranch)
    /\ gesture' = null

Clear ==
    /\ clearCanvas
    /\ Record("clearCanvas", "")
    /\ gesture' = null

SelectTool(T) ==
    \E t \in T :
        /\ setSelectedShape(t)
        /\ Record("setSelectedShape", "")
        /\ UNCHANGED gesture

SelectColor(C) ==
    \E c \in C :
        /\ setBrushColor(c)
        /\ Record("setBrushColor", "")
        /\ UNCHANGED gesture

SvgLoad(N) ==
    \E n \in N :
        /\ svgLoaded(n)
        /\ Record("svgLoaded", "")
        /\ UNCHANGED gesture

UploadStart(F) ==
    \E f \in F :
        /\ handleImageUpload(f)
        /\ Record("handleImageUpload", f)
        /\ UNCHANGED gesture

UploadRead ==
    \E u \in BagToSet(uploads) :
        /\ readerLoaded(u)
        /\ Record("readerLoaded", "")
        /\ UNCHANGED gesture

UploadDecoded ==
    \E u \in BagToSet(uploads) :
        /\ imageLoaded(u)
        /\ Record("imageLoaded", "")
        /\ UNCHANGED gesture

Submit ==
    /\ evaluateKolam
    /\ Record("evaluateKolam", "")
    /\ UNCHANGED gesture

BlobDone ==
    \E r \in 1..MaxRequests, b \in BOOLEAN :
        /\ blobReady(r, b)
        /\ Record("blobReady", IF b THEN "blob" ELSE "null")
        /\ UNCHANGED gesture

FetchDone ==
    \E r \in 1..MaxRequests, o \in {"ok", "notok", "throw"} :
        /\ fetchSettled(r, o)
        /\ Record("fetchSettled", o)
        /\ UNCHANGED gesture

JsonDone ==
    \E r \in 1..MaxRequests, b \in BOOLEAN :
        /\ jsonSettled(r, b)
        /\ Record("jsonSettled", IF b THEN "parsed" ELSE "rejected")
        /\ UNCHANGED gesture

---------------------------------------------------------------------------
(* The helper functions applied on their own.  probe holds the name of the
   function, its input and the results obtained so far; the component stays
   as mounted. *)

SnapCoords == (0 - MaxCoord)..MaxCoord

InitSnap ==
    /\ Mounted
    /\ dragStart = [tracked |-> FALSE, start |-> null]
    /\ generator = null /\ evaluatePage = null
    /\ \E c \in SnapCoords :
          probe = Some([fn |-> "snapToGrid", in |-> c, out |-> <<>>])

\* snapToGrid(c, gridSize)
SnapOnce ==
    /\ probe # null /\ Val(probe).fn = "snapToGrid"
    /\ Len(Val(probe).out) = 0
    /\ probe' = Some([Val(probe) EXCEPT
                        !.out = <<snapToGrid(Val(probe).in, gridSize)>>])
    /\ UNCHANGED <<editorVars, sceneVars, uploadVars, evalVars, crashed,
                   lastEvent, gesture, dragStart, uploadHistory, otherPages>>

\* snapToGrid applied to its own result
SnapAgain ==
    /\ probe # null /\ Val(probe).fn = "snapToGrid"
    /\ Len(Val(probe).out) = 1
    /\ probe' = Some([Val(probe) EXCEPT
                        !.out = @ \o <<snapToGrid(@[1], gridSize)>>])
    /\ UNCHANGED <<editorVars, sceneVars, uploadVars, evalVars, crashed,
                   lastEvent, gesture, dragStart, uploadHistory, otherPages>>

\* shapes as startDrawing creates them, at a cell centre, and as draw leaves
\* them during a drag, off the centres
ProbeShapes ==
    {Shape("kul", 35, 35, (gridSize * 8) \div 10, "#000000"),
     Shape("lu", 0, 35, (gridSize * 8) \div 10, "#FF0000"),
     Shape("kul", 68, 0 - 5, (gridSize * 8) \div 10, "#000000")}
Offsets == (0 - MaxOffset)..MaxOffset

InitHit ==
    /\ Mounted
    /\ dragStart = [tracked |-> FALSE, start |-> null]
    /\ generator = null /\ evaluatePage = null
    /\ \E sh \in ProbeShapes, dx \in Offsets, dy \in Offsets :
          probe = Some([fn |-> "isPointInShape",
                        in |-> [px |-> sh.x + dx, py |-> sh.y + dy, shape |-> sh],
                        out |-> <<>>])

\* isPointInShape(px, py, shape)
HitTest ==
    /\ probe # null /\ Val(probe).fn = "isPointInShape"
    /\ Len(Val(probe).out) = 0
    /\ probe' = Some([Val(probe) EXCEPT
                        !.out = <<isPointInShape(Val(probe).in.px, Val(probe).in.py,
                                                 Val(probe).in.shape)>>])
    /\ UNCHANGED <<editorVars, sceneVars, uploadVars, evalVars, crashed,
                   lastEvent, gesture, dragStart, uploadHistory, otherPages>>

---------------------------------------------------------------------------
(* Specifications *)

\* The shape editor on three pointer positions in two grid cells, with the
\* freehand tool and one glyph tool (the image of the other never loads) and
\* the initial brush colour.
Next ==
    \/ PointerDown(Points)
    \/ PointerMove(Points)
    \/ PointerUp
    \/ Undo
    \/ Clear
    \/ SelectTool({"freehand", "kul"})
    \/ SvgLoad({"kul"})

Spec == Init /\ [][Next]_vars

\* The evaluator submissions, with the editor on one pointer position.
NextEval ==
    \/ PointerDown(OnePoint)
    \/ PointerMove(OnePoint)
    \/ PointerUp
    \/ Undo
    \/ Clear
    \/ SelectTool({"kul"})
    \/ SvgLoad({"kul"})
    \/ Submit
    \/ BlobDone
    \/ FetchDone
    \/ JsonDone

SpecEval == Init /\ [][NextEval]_vars

\* The evaluator submissions when every pending step of a request eventually
\* happens: the toBlob callback is called, the POST settles, and the body of
\* an ok response is read or fails to parse.
SpecEvalFair ==
    /\ SpecEval
    /\ WF_vars(BlobDone)
    /\ WF_vars(FetchDone)
    /\ WF_vars(JsonDone)

\* Background-image uploads, with the editor on one pointer position.
NextUpload ==
    \/ PointerDown(OnePoint)
    \/ PointerMove(OnePoint)
    \/ PointerUp
    \/ Undo
    \/ Clear
    \/ SelectTool({"kul"})
    \/ SvgLoad({"kul"})
    \/ UploadStart(Files)
    \/ UploadRead
    \/ UploadDecoded

SpecUpload == Init /\ [][NextUpload]_vars

\* The tools: the three tool buttons, both glyph images (each may load at any
\* time or never) and two brush colours, with pointer-downs at two positions
\* in two grid cells and pointer moves to one of them.
NextTools ==
    \/ PointerDown(ToolPoints)
    \/ PointerMove(OnePoint)
    \/ PointerUp
    \/ Undo
    \/ Clear
    \/ SelectTool(ShapeTypes)
    \/ SelectColor(Colors)
    \/ SvgLoad(GlyphTypes)

SpecTools == Init /\ [][NextTools]_vars

\* The drag sessions: the editor with the kul tool, from pointer-down to
\* pointer-up with placements and undo in between
NextDrag ==
    \/ PointerDown(Points)
    \/ PointerMove(Points)
    \/ PointerUp
    \/ Undo
    \/ SelectTool({"kul"})
    \/ SvgLoad({"kul"})

SpecDrag == InitDrag /\ [][NextDrag]_vars

\* The editor with pointer positions at the corners of the canvas
NextEdge ==
    \/ PointerDown(EdgePoints)
    \/ PointerMove(EdgePoints)
    \/ PointerUp
    \/ SelectTool({"kul"})
    \/ SvgLoad({"kul"})

SpecEdge == Init /\ [][NextEdge]_vars

\* The evaluate page
NextEvaluatePage ==
    \/ HandleUpload
    \/ handleSubmit
    \/ TimeoutFired

SpecEvaluatePage == InitEvaluatePage /\ [][NextEvaluatePage]_vars

\* The generator pages
NextGenerator ==
    \/ SetSize
    \/ handleGenerate
    \/ handleGenerateUnvalidated
    \/ generateKolam
    \/ GenerateResponded
    \/ GenerateBodyRead

SpecGenerator == InitGenerator /\ [][NextGenerator]_vars

\* snapToGrid on every coordinate of SnapCoords, applied once and twice
NextSnap ==
    \/ SnapOnce
    \/ SnapAgain

SpecSnap == InitSnap /\ [][NextSnap]_vars

\* isPointInShape on every point around every shape of ProbeShapes
NextHit == HitTest

SpecHit == InitHit /\ [][NextHit]_vars

---------------------------------------------------------------------------
(* Properties *)

Indices == 1..Len(shapes)

\* C1: when no drag session is active, no two shapes of the sequence have the
\* same position (x, y): at most one shape occupies a grid cell at rest.
C1_OneShapePerCellAtRest ==
    (draggedShapeIndex = null /\ ~crashed) =>
        \A i, j \in Indices :
            (i < j /\ IsObject(shapes[i]) /\ IsObject(shapes[j])) =>
                ~(shapes[i].x = shapes[j].x /\ shapes[i].y = shapes[j].y)

\* C2: when a drag session is released over a cell that another shape
\* occupies, the dragged shape is back at the position it had at pointer-down,
\* and the number of shapes and the positions of all shapes are what they were
\* when the drag session began.
C2_RevertRestoresPreDragSequence ==
    [][lastEvent' = <<"stopDrawing", "revert">> =>
          LET start == Val(dragStart.start) IN
          /\ Len(shapes') = Len(start)
          /\ \A i \in 1..Len(start) :
                /\ shapes'[i].x = start[i].x
                /\ shapes'[i].y = start[i].y]_vars

\* a shape of the sequence sits exactly at the centre of the cell of point p
CellTaken(p) ==
    \E i \in Indices :
        /\ IsObject(shapes[i])
        /\ shapes[i].x = snapToGrid(p.x, gridSize)
        /\ shapes[i].y = snapToGrid(p.y, gridSize)

\* a shape of the sequence lies in the grid cell of point p
CellHoldsShape(p) ==
    \E i \in Indices :
        /\ IsObject(shapes[i])
        /\ snapToGrid(shapes[i].x, gridSize) = snapToGrid(p.x, gridSize)
        /\ snapToGrid(shapes[i].y, gridSize) = snapToGrid(p.y, gridSize)

\* C3: with a glyph tool active, of two placements whose coordinates snap to
\* the same grid cell only the first adds a shape: a pointer-down in a cell
\* that holds a shape is rejected and leaves the shape sequence unchanged.
C3_SecondPlacementRejected ==
    [][(selectedShape # "freehand" /\ shapes' # shapes) =>
          \A p \in Points : CellHoldsShape(p) => ~startDrawing(p.x, p.y)]_vars

\* C4: undo on an empty sequence changes nothing; on a non-empty sequence it
\* removes the last element and keeps the prefix as it was, so the length
\* drops by exactly one per undo.
C4_UndoRemovesLast ==
    [][lastEvent'[1] = "undoLastShape" =>
          IF Len(shapes) = 0
          THEN shapes' = shapes
          ELSE /\ Len(shapes') = Len(shapes) - 1
               /\ \A i \in 1..Len(shapes') : shapes'[i] = shapes[i]]_vars

\* an undo that removed the third shape, after a shape had been dragged
C4_Witness ==
    /\ lastEvent = <<"undoLastShape", "remove">>
    /\ Len(shapes) = 2
    /\ dragOffset # Pos(0, 0)
    /\ ~crashed

\* C5: clear() always results in an empty shape sequence, no background image
\* and the grid visible.
C5_ClearResetsScene ==
    lastEvent[1] = "clearCanvas" =>
        (shapes = <<>> /\ backgroundImage = null /\ showGrid)

\* a clear in the middle of a drag, while an upload is still being decoded
C5_Witness ==
    /\ lastEvent[1] = "clearCanvas"
    /\ draggedShapeIndex # null
    /\ \E u \in BagToSet(uploads) : u.stage = "decoding"

\* C6: at most one evaluator request is in flight at any time.
InFlight == {r \in 1..MaxRequests : requests[r] = "fetch"}
C6_AtMostOneRequestInFlight == Cardinality(InFlight) <= 1

\* C7: when a submission fails (no blob, a non-success status, or fetch
\* throws) the status goes from loading to error, the submit control is enabled
\* again, shapes, background and grid are unchanged, and a blob failure sends
\* no request.
FailureEvents ==
    {<<"blobReady", "null">>, <<"fetchSettled", "notok">>, <<"fetchSettled", "throw">>}
C7_FailureLoadingToError ==
    [][lastEvent' \in FailureEvents =>
          /\ evaluationStatus = "loading"
          /\ evaluationStatus' = "error"
          /\ submitEnabled'
          /\ UNCHANGED <<shapes, backgroundImage, showGrid>>
          /\ (lastEvent' = <<"blobReady", "null">> =>
                \A r \in 1..MaxRequests : requests'[r] = "fetch" => requests[r] = "fetch")
      ]_vars

\* C8: for every request the status is assigned a terminal value at most once.
C8_StatusUpdatedOncePerRequest ==
    \A r \in 1..MaxRequests : statusUpdates[r] <= 1

DragSessionActive == draggedShapeIndex # null
FreehandStrokeActive ==
    isDrawing /\ draggedShapeIndex = null /\ selectedShape = "freehand"

\* C9 as stated: in every state exactly one of drag session and freehand stroke
\* is active.
C9_ExactlyOneSession ==
    (DragSessionActive /\ ~FreehandStrokeActive)
        \/ (~DragSessionActive /\ FreehandStrokeActive)

\* C9, amended: at most one of the two is active; a pointer move acts for the
\* active session alone: it draws no stroke segment while a drag session is
\* active, moves no shape while a stroke is active, and does neither when
\* neither is active.
C9_AtMostOneSession ==
    [][lastEvent'[1] = "draw" =>
          /\ ~(DragSessionActive /\ FreehandStrokeActive)
          /\ (DragSessionActive => lastPosition' = lastPosition)
          /\ (FreehandStrokeActive => shapes' = shapes)
          /\ (~DragSessionActive /\ ~FreehandStrokeActive =>
                (shapes' = shapes /\ lastPosition' = lastPosition))]_vars

\* a shape was moved by a pointer move while the freehand tool was selected
C9_Witness ==
    /\ lastEvent = <<"draw", "drag">>
    /\ selectedShape = "freehand"
    /\ gesture # null
    /\ Val(gesture).start # shapes

\* C10: the shape sequence has no gaps: every index holds a complete shape
\* (kind, x, y, size, color).
C10_EveryIndexHoldsCompleteShape ==
    ~crashed => \A i \in Indices : shapes[i].kind = "shape"

\* C11: a glyph tool is selected only when its image has loaded (a tool whose
\* image has not loaded, or never loads, cannot be selected), and every glyph
\* shape of the sequence is of a kind whose image has loaded.
C11_GlyphToolsNeedLoadedAsset ==
    /\ selectedShape \in GlyphTypes => selectedShape \in svgImages
    /\ \A i \in Indices :
          shapes[i].kind = "shape" =>
              (shapes[i].type \in GlyphTypes /\ shapes[i].type \in svgImages)

\* a lu shape was placed while the image of kul had not loaded
C11_Witness ==
    /\ lastEvent = <<"startDrawing", "place">>
    /\ shapes[Len(shapes)].type = "lu"
    /\ "kul" \notin svgImages

\* the remainder operator of JavaScript: the result has the sign of the dividend
JsRem(a, b) == IF a >= 0 THEN a % b ELSE 0 - ((0 - a) % b)

\* C12: snap is idempotent, snap(snap(c)) = snap(c), and returns a cell-centre
\* coordinate, (snap(c) - cellEdge/2) % cellEdge = 0, for every coordinate c,
\* negative ones and exact multiples of the cell edge included.
C12_SnapIdempotentCellCenter ==
    (probe # null /\ Val(probe).fn = "snapToGrid") =>
        LET out == Val(probe).out IN
        /\ Len(out) >= 1 => JsRem(out[1] - gridSize \div 2, gridSize) = 0
        /\ Len(out) = 2 => out[2] = out[1]

\* snap was applied twice to a negative exact multiple of the cell edge
C12_Witness ==
    /\ probe # null
    /\ Val(probe).fn = "snapToGrid"
    /\ Val(probe).in = 0 - gridSize
    /\ Val(probe).out = <<0 - gridSize \div 2, 0 - gridSize \div 2>>

\* the point lies inside or on the boundary of the square of edge sh.size
\* centred at (sh.x, sh.y)
InSquare(px, py, sh) ==
    /\ 2 * px >= 2 * sh.x - sh.size /\ 2 * px <= 2 * sh.x + sh.size
    /\ 2 * py >= 2 * sh.y - sh.size /\ 2 * py <= 2 * sh.y + sh.size

\* C13: pointInShape(p, shape) is true for every point inside or on the
\* boundary of the square of edge shape.size centred at the shape's position,
\* and false for every point strictly outside it.
C13_PointInShapeIsBoundingSquare ==
    (probe # null /\ Val(probe).fn = "isPointInShape" /\ Len(Val(probe).out) = 1) =>
        Val(probe).out[1] =
            InSquare(Val(probe).in.px, Val(probe).in.py, Val(probe).in.shape)

\* the test answered true for a corner of the square
C13_Witness ==
    /\ probe # null
    /\ Val(probe).fn = "isPointInShape"
    /\ Val(probe).in.px = Val(probe).in.shape.x - Val(probe).in.shape.size \div 2
    /\ Val(probe).in.py = Val(probe).in.shape.y + Val(probe).in.shape.size \div 2
    /\ Val(probe).out = <<TRUE>>

\* the point p lies in the bounding box of no shape of the sequence
InNoShape(p) ==
    \A i \in Indices : ~isPointInShape(p.x, p.y, shapes[i])

\* C14: with a glyph tool active, a pointer-down at a point that is inside no
\* shape's bounding box and whose snapped cell is unoccupied appends exactly
\* one shape at the end of the sequence, of the active kind, at
\* (snap(x), snap(y)), of size 0.8 times the cell edge and of the current brush
\* colour; a click at (73, 5) creates the shape at (105, 35).
C14_PlacementAppendsShape ==
    [][\A p \in ToolPoints :
          (/\ lastEvent'[1] = "startDrawing"
           /\ selectedShape # "freehand"
           /\ InNoShape(p)
           /\ ~CellTaken(p)
           /\ startDrawing(p.x, p.y))
          => /\ shapes' = shapes \o
                   <<Shape(selectedShape,
                           (p.x \div gridSize) * gridSize + gridSize \div 2,
                           (p.y \div gridSize) * gridSize + gridSize \div 2,
                           56, brushColor)>>
             /\ (p = Pos(73, 5) =>
                   (shapes'[Len(shapes')].x = 105 /\ shapes'[Len(shapes')].y = 35))
      ]_vars

\* the 1-based indices of the shapes whose bounding box contains p
ShapesContaining(p) ==
    {i \in Indices : isPointInShape(p.x, p.y, shapes[i])}

\* C15: with a glyph tool active, a pointer-down at a point contained in the
\* bounding box of at least one shape begins a drag session for the most
\* recently added such shape, records that shape's current position as the
\* revert target and (pointer - shape position) as the offset, and appends no
\* shape.
C15_PointerDownGrabsMostRecent ==
    [][\A p \in Points :
          (/\ lastEvent'[1] = "startDrawing"
           /\ selectedShape # "freehand"
           /\ ShapesContaining(p) # {}
           /\ startDrawing(p.x, p.y))
          => LET i == CHOOSE k \in ShapesContaining(p) :
                          \A j \in ShapesContaining(p) : j <= k
             IN  /\ draggedShapeIndex' = Some(i - 1)
                 /\ isDrawing'
                 /\ originalShapePosition' = Some(Pos(shapes[i].x, shapes[i].y))
                 /\ dragOffset' = Pos(p.x - shapes[i].x, p.y - shapes[i].y)
                 /\ shapes' = shapes
      ]_vars

\* a drag session is active on an existing shape and no other shape sits at
\* the centre of the cell of the dragged shape's current position
ReleaseCellFree ==
    /\ DragSessionActive
    /\ Val(draggedShapeIndex) < Len(shapes)
    /\ IsObject(shapes[Val(draggedShapeIndex) + 1])
    /\ LET d == Val(draggedShapeIndex) + 1 IN
       \A j \in Indices \ {d} :
           IsObject(shapes[j]) =>
               ~(/\ shapes[j].x = (shapes[d].x \div gridSize) * gridSize + gridSize \div 2
                 /\ shapes[j].y = (shapes[d].y \div gridSize) * gridSize + gridSize \div 2)

\* C16: a pointer-up (or the pointer leaving the canvas) with a drag session
\* active and no other shape in the target cell commits the dragged shape to
\* (snap(x), snap(y)) of its current position; after every pointer-up, commit
\* and revert included, neither a drag session nor a freehand stroke is active.
C16_PointerUpCommitsAndClears ==
    [][lastEvent'[1] = "stopDrawing" =>
          /\ ~DragSessionActive'
          /\ ~FreehandStrokeActive'
          /\ ReleaseCellFree =>
                LET d == Val(draggedShapeIndex) + 1 IN
                shapes' = [shapes EXCEPT
                    ![d].x = (shapes[d].x \div gridSize) * gridSize + gridSize \div 2,
                    ![d].y = (shapes[d].y \div gridSize) * gridSize + gridSize \div 2]
      ]_vars

\* C17: a pointer move to (x, y) while a drag session is active sets the
\* dragged shape's position to (x - offsetX, y - offsetY), without snapping,
\* and changes no other shape; a pointer move with neither a drag session nor
\* a freehand stroke active leaves all editor state unchanged.
C17_PointerMoveFrame ==
    [][\A p \in Points :
          (lastEvent'[1] = "draw" /\ draw(p.x, p.y)) =>
              /\ DragSessionActive =>
                    /\ Len(shapes') = Len(shapes)
                    /\ \A i \in Indices :
                          shapes'[i] =
                              IF i = Val(draggedShapeIndex) + 1
                              THEN [shapes[i] EXCEPT !.x = p.x - dragOffset.x,
                                                     !.y = p.y - dragOffset.y]
                              ELSE shapes[i]
              /\ (~DragSessionActive /\ ~FreehandStrokeActive) =>
                    UNCHANGED editorVars
      ]_vars

\* C18: with the freehand tool active, a pointer-down begins a stroke session
\* anchored at (x, y) and neither begins a drag session nor appends, moves or
\* removes a shape, also when the point lies inside a shape's bounding box.
C18_FreehandPointerDownFrame ==
    [][\A p \in Points :
          (/\ lastEvent'[1] = "startDrawing"
           /\ selectedShape = "freehand"
           /\ startDrawing(p.x, p.y))
          => /\ isDrawing'
             /\ lastPosition' = p
             /\ UNCHANGED <<shapes, draggedShapeIndex, dragOffset,
                            originalShapePosition>>
      ]_vars

\* a stroke was begun at a point inside the bounding box of a shape
C18_Witness ==
    /\ lastEvent = <<"startDrawing", "stroke">>
    /\ ShapesContaining(lastPosition) # {}
    /\ FreehandStrokeActive

\* C19: setting the background image replaces the background and hides the
\* grid, and in every reachable state the grid is visible exactly when no
\* background image is set.
C19_GridVisibleIffNoBackground ==
    /\ showGrid <=> (backgroundImage = null)
    /\ lastEvent[1] = "imageLoaded" => (backgroundImage # null /\ ~showGrid)

\* the second of two uploads replaced the background set by the first; a
\* third upload is still being read
C19_Witness ==
    /\ lastEvent[1] = "imageLoaded"
    /\ backgroundImage = Some("imgB")
    /\ ~showGrid
    /\ \E u \in BagToSet(uploads) : u.file = "imgA" /\ u.stage = "reading"
    /\ Len(shapes) > 0

\* the elements of s that are shapes (type, x, y, size, color), in sequence order
IsShape(e) == e.kind = "shape"
ShapesOf(s) == SelectSeq(s, IsShape)

\* the shapes of s with the one at the 0-based index d, if any, moved to the end
DraggedLast(s, d) ==
    IF d = null \/ Val(d) >= Len(s) \/ ~IsShape(s[Val(d) + 1])
    THEN ShapesOf(s)
    ELSE ShapesOf(SubSeq(s, 1, Val(d))) \o ShapesOf(SubSeq(s, Val(d) + 2, Len(s)))
             \o <<s[Val(d) + 1]>>

\* C20: render draws every shape of the sequence exactly once: the shapes that
\* are not being dragged in sequence order, then the dragged shape, if a drag
\* session is active, last; the draw list is the shape sequence with the
\* dragged shape moved to the end.
C20_RenderDrawsDraggedLast ==
    ShapesOf(drawList(shapes, draggedShapeIndex)) =
        DraggedLast(shapes, draggedShapeIndex)

\* the first of two shapes is being dragged: it is drawn after the second
C20_Witness ==
    /\ draggedShapeIndex = Some(0)
    /\ Len(shapes) = 2
    /\ shapes[1].kind = "shape" /\ shapes[2].kind = "shape"
    /\ lastEvent = <<"draw", "drag">>
    /\ drawList(shapes, draggedShapeIndex) = <<shapes[2], shapes[1]>>

\* C21: if every evaluator request eventually completes or fails, a status of
\* loading is always followed by a status of success or error, with which the
\* submit control is enabled again: the status never stays loading forever.
C21_LoadingEventuallySettles ==
    (evaluationStatus = "loading") ~>
        (evaluationStatus \in {"success", "error"} /\ submitEnabled)

\* the second submission ended with a network error while the body of the
\* first response was still being read
C21_Witness ==
    /\ lastEvent = <<"fetchSettled", "throw">>
    /\ requests[1] = "json"
    /\ requests[2] = "done"
    /\ evaluationStatus = "error"
    /\ submitEnabled

\* C22: selecting a tool changes only the active tool: the shape sequence, the
\* background image, the grid flag and the evaluation status are unchanged, and
\* so is the pointer session, also when a drag session or a freehand stroke is
\* in progress.
C22_SelectToolFrame ==
    [][lastEvent'[1] = "setSelectedShape" =>
          /\ UNCHANGED <<shapes, backgroundImage, showGrid, evaluationStatus>>
          /\ UNCHANGED <<isDrawing, lastPosition, brushColor, svgImages,
                         draggedShapeIndex, dragOffset, originalShapePosition>>
      ]_vars

\* the freehand tool was selected while a shape was being dragged
C22_Witness ==
    /\ lastEvent[1] = "setSelectedShape"
    /\ selectedShape = "freehand"
    /\ DragSessionActive
    /\ Len(shapes) = 2
    /\ gesture # null

\* C23: every request sent to the generator endpoint carries a size in
\* [2, 50]; a generate action with a size below 2 or above 50 sends no request
\* and leaves the loading flag and the displayed image unchanged.
C23_GeneratorRequestsCarryValidSize ==
    [][lastEvent'[1] \in {"handleGenerate", "generateKolam"} =>
          /\ \A i \in 1..Len(Val(generator').sent) :
                /\ Val(generator').sent[i] # null
                /\ Val(Val(generator').sent[i]) >= 2
                /\ Val(Val(generator').sent[i]) <= 50
          /\ (Val(generator).size < 2 \/ Val(generator).size > 50) =>
                /\ Val(generator').sent = Val(generator).sent
                /\ Val(generator').loading = Val(generator).loading
                /\ Val(generator').imageUrl = Val(generator).imageUrl
      ]_vars

\* C24: whenever a drag session is active its shape index refers to an
\* existing element of the shape sequence (index < length), under every
\* interleaving of undo and clear with the pointer events; no pointer move
\* writes a shape at an index that undo or clear has removed.
C24_DragIndexInRange ==
    DragSessionActive =>
        /\ Val(draggedShapeIndex) < Len(shapes)
        /\ shapes[Val(draggedShapeIndex) + 1].kind = "shape"

\* C25: a complete drag (pointer-down on a shape, any number of pointer moves,
\* pointer-up) leaves the length of the shape sequence, the order of its
\* elements and the kind, size and color of every shape as they were; only the
\* position of one shape, the dragged one, can differ afterwards.
C25_DragChangesPositionOnly ==
    (lastEvent[1] = "stopDrawing" /\ gesture # null) =>
        LET start == Val(gesture).start IN
        /\ Len(shapes) = Len(start)
        /\ \A i \in 1..Len(start) :
              IsShape(start[i]) =>
                  /\ IsShape(shapes[i])
                  /\ shapes[i].type = start[i].type
                  /\ shapes[i].size = start[i].size
                  /\ shapes[i].color = start[i].color
        /\ Cardinality({i \in 1..Len(start) :
                           IsShape(start[i]) /\ shapes[i] # start[i]}) <= 1

\* a drag of one of two shapes was committed at another cell
C25_Witness ==
    /\ lastEvent = <<"stopDrawing", "commit">>
    /\ gesture # null
    /\ Val(gesture).moved
    /\ Len(shapes) = 2
    /\ IsShape(shapes[1]) /\ IsShape(shapes[2])
    /\ shapes # Val(gesture).start

\* C26: in every state with no drag session active every shape sits at a cell
\* centre: snapToGrid(shape.x) = shape.x and snapToGrid(shape.y) = shape.y.
C26_ShapesAtCellCentresAtRest ==
    ~DragSessionActive =>
        \A i \in Indices :
            IsShape(shapes[i]) =>
                /\ snapToGrid(shapes[i].x, gridSize) = shapes[i].x
                /\ snapToGrid(shapes[i].y, gridSize) = shapes[i].y

\* C27: no shape of kind freehand is ever in the shape sequence: freehand
\* strokes are drawn and not recorded, so the shape count and undo concern
\* glyph shapes only.
C27_NoFreehandShape ==
    /\ \A i \in Indices : shapes[i].type # "freehand"
    /\ lastEvent = <<"draw", "stroke">> =>
          (gesture = null /\ selectedShape = "freehand")

\* a freehand stroke was drawn over a sequence that holds a shape
C27_Witness ==
    /\ lastEvent = <<"draw", "stroke">>
    /\ selectedShape = "freehand"
    /\ Len(shapes) >= 1

\* C29: image upload is ordered correctly with other operations: after a
\* clear the background image stays absent until a new upload is started (an
\* upload started before the clear does not restore a background afterwards),
\* and once the uploads have completed the background is the image selected
\* last.
C29_UploadOrderedWithClearAndUploads ==
    /\ ~uploadHistory.sinceClear => backgroundImage = null
    /\ (uploadHistory.sinceClear /\ uploads = EmptyBag) =>
          backgroundImage = uploadHistory.last

\* C28: every shape at rest has its centre inside the canvas
\* (0 <= x <= 800 and 0 <= y <= 600), for every placement click inside the
\* canvas and every drag released or ended by the pointer leaving the canvas.
C28_ShapesInsideCanvasAtRest ==
    ~DragSessionActive =>
        \A i \in Indices :
            IsShape(shapes[i]) =>
                /\ 0 <= shapes[i].x /\ shapes[i].x <= canvasWidth
                /\ 0 <= shapes[i].y /\ shapes[i].y <= canvasHeight

\* C30: on the evaluate page the verdict shown after the simulated evaluation
\* refers to the currently selected file (selecting another file while an
\* evaluation is pending never shows a verdict computed from the previously
\* selected file), and submit with no file selected shows a warning without
\* entering the loading state.
C30_VerdictRefersToSelectedFile ==
    LET page == Val(evaluatePage) IN
    /\ page.message \in {LooksLikeKolam, NotKolam} =>
          /\ page.file # null
          /\ lastEvent[1] = "timeout" => lastEvent[2] = Val(page.file)
          /\ messageClass(page.message) = "text-green-600"
                <=> includesKolam(Val(page.file))
    /\ lastEvent = <<"handleSubmit", "nofile">> =>
          (page.message = Warning /\ ~page.loading)

====
